---- MODULE Spec2Model ----
(***************************************************************************)
(* Model of the benchmark orchestrator in src/bench/src/cmd/bench/bench.go *)
(* (package main): the function registries, the gate (preTest), continuous *)
(* validation (validationMain), the load pool (load, levelUpLoad), the     *)
(* escalation controller (benchmarkMain) and the result assembled by       *)
(* startBenchmark and main.                                                *)
(*                                                                         *)
(* Goroutines are modelled by program counters: pc for the goroutine that  *)
(* runs main/startBenchmark, cpc for the goroutine of benchmarkMain, and   *)
(* counts of the (interchangeable) goroutines spawned by load and by       *)
(* levelUpLoad.  The bench and counter packages are not part of the source *)
(* at hand; the Signal Board operations are modelled from the written      *)
(* specification and the counters are read as inputs.                      *)
(***************************************************************************)
EXTENDS Integers, Sequences, FiniteSets, TLC

VARIABLES
    preTestOnly,        \* flag -test            (bench.go:25)
    noLevelup,          \* flag -nolevelup       (bench.go:26)
    checkFuncs,         \* registry of checks    (bench.go:27)
    loadFuncs,          \* registry of load functions, replicated by weight (bench.go:28)
    loadLevelUpFuncs,   \* registry of level-up load functions (bench.go:29)
    registrations,      \* the calls of addCheckFunc, addLoadFunc, addLoadLevelUpFunc made so far
    loadLogs,           \* log entries of the escalation controller (bench.go:30)
    ctx,                \* the run context: "none", "live", "deadline", "canceled"
    pc,                 \* position of the goroutine running main/startBenchmark
    i,                  \* loop position in preTest / validationMain (1-based), 1 outside
    perm,               \* the value of rand.Perm(len(checkFuncs)) while validationMain runs
    calls,              \* indices of the checks invoked by the current or last pass
    vexit,              \* how the last validationMain call returned
    gateErr,            \* a check called by preTest returned an error
    result,             \* the BenchResult
    snap,               \* the counter values read at bench.go:334-338
    err,                \* the error last returned to startBenchmark or held by validationMain, None for nil
    lastErrAge,         \* time.Since(et) of the last checker error in seconds, or NoAge
    lastSlowAge,        \* time.Since(st) of the last slow path in seconds, or NoAge
    guarded,            \* the Signal Board's guard flag
    checkerErrors,      \* the kinds of errors in the list bench.GetCheckerErrors() returns
    dropped,            \* a report arrived while the guard was set
    cpc,                \* position of the goroutine running benchmarkMain
    hasRecentErr,       \* local of benchmarkMain (bench.go:175)
    tickPending,        \* a value is waiting in beat.C
    workers,            \* goroutines of load: how many at the loop top, in a call, exited
    bursts,             \* goroutines of levelUpLoad still running
    burstsSpawned,      \* goroutines of levelUpLoad spawned so far
    level,              \* counter key "load-level-up"
    poolRequested,      \* load was called at least once
    panicked            \* the process died of a runtime panic

vars == <<preTestOnly, noLevelup, checkFuncs, loadFuncs, loadLevelUpFuncs, registrations,
          loadLogs, ctx, pc, i, perm, calls, vexit, gateErr, result, snap, err,
          lastErrAge, lastSlowAge,
          guarded, checkerErrors, dropped, cpc, hasRecentErr,
          tickPending, workers, bursts, burstsSpawned, level, poolRequested, panicked>>

regVars  == <<checkFuncs, loadFuncs, loadLevelUpFuncs, registrations>>
cfgVars  == <<preTestOnly, noLevelup>>
seqVars  == <<pc, i, perm, calls, vexit, gateErr, result, snap, err>>
sigVars  == <<lastErrAge, lastSlowAge, guarded, checkerErrors, dropped>>
ctlVars  == <<cpc, hasRecentErr, tickPending, loadLogs, level>>
poolVars == <<workers, bursts, burstsSpawned, poolRequested>>

None == "none"

\* the age of a signal that was never reported (e == nil, path == "")
NoAge == -1

\* ---------------------------------------------------------------- bounds
MaxLogs == 2        \* ticks the controller handles with escalation enabled
NumChecks == 2      \* checks registered by startBenchmark (of the five in the source)
MaxReg == 2         \* entries per registry a caller of the registry creates
MaxWeight == 2      \* weight of one registration
MaxPool == 2        \* n of a caller's load(ctx, state, n) and levelUpLoad(ctx, state, n)

\* ---------------------------------------------------------------- program constants
NumWorkers == 10        \* load(ctx, state, 10)
InitialBurst == 1       \* levelUpLoad(ctx, state, 1)
EscalationBurst == 5    \* levelUpLoad(ctx, state, 5)
Window == 5             \* 5*time.Second

CheckNames == <<"CheckStaticFiles", "CheckCreateUser", "CheckLogin",
                "CheckAdminLogin", "CheckAdminCreateEvent">>

\* What a check or load call returns: nil, an error, a *CheckerError with IsFatal().
Outcomes == {"ok", "err", "fatal"}

\* ---------------------------------------------------------------- registry
addCheckFunc(f, reg) == Append(reg, f)

\* mutant: the function is appended once whatever its weight
addLoadFunc_once(weight, f, reg) == Append(reg, f)

addLoadFunc(weight, f, reg) == reg \o [k \in 1..weight |-> f]

addLoadLevelUpFunc(weight, f, reg) == reg \o [k \in 1..weight |-> f]

\* the record of one call of addCheckFunc (weight 1), addLoadFunc or addLoadLevelUpFunc
Registered(kind, weight, f, log) ==
    [log EXCEPT ![kind] = Append(@, [weight |-> weight, f |-> f])]

NoRegistrations == [check |-> <<>>, load |-> <<>>, levelUp |-> <<>>]

CtxErr(c) == c \in {"deadline", "canceled"}

\* defer cancel()
Cancel(c) == IF c = "live" THEN "canceled" ELSE c

\* rand.Perm(n): the permutations of 1..n (the source's 0..n-1, shifted by one)
Perm(n) == {p \in [1..n -> 1..n] : \A a, b \in 1..n : p[a] = p[b] => a = b}

\* mutant: the loop variable lags one position behind
RangeVar_lag(p, k) == IF k > 1 THEN k - 1 ELSE k

\* for r := range rand.Perm(...): with one loop variable Go's range yields the
\* index of the element, not the element.
RangeVar(p, k) == k

\* mutant: only a fatal error stops the gate
GateFails_onlyFatal(out) == out = "fatal"

\* preTest: if err != nil { return err }
GateFails(out) == out # "ok"

\* mutant: every error counts as fatal
IsFatalError_any(out) == TRUE

\* validationMain: isFatalError (cerr.IsFatal()) and err != nil && isFatalError
IsFatalError(out) == out = "fatal"

\* e != nil && time.Since(et) < 5*time.Second
HasRecent(age) == age # NoAge /\ age < Window

\* mutant: the else-if branch for the slow path is missing
LogKind_noSlow(hre, hrs) == IF hre THEN "err" ELSE "up"

\* the branch of bench.go:182-188 as the kind of the log entry appended
LogKind(hre, hrs) == IF hre THEN "err" ELSE IF hrs THEN "slow" ELSE "up"

\* Go's integer division truncates toward zero
GoDiv(a, b) == IF a >= 0 THEN a \div b ELSE -((-a) \div b)

\* mutant: the not-modified responses are not taken off the GET count
Score_noDiscount(c) == 1 * (c.get - c.fetch) + 3 * c.post + 1 * c.msg + GoDiv(c.s304, 100)

\* score := 1*(getCount-fetchCount-s304Count) + 3*postCount + 1*msgCount + s304Count/100
Score(c) == 1 * (c.get - c.fetch - c.s304) + 3 * c.post + 1 * c.msg + GoDiv(c.s304, 100)

NoSnap == [get |-> 0, fetch |-> 0, s304 |-> 0, post |-> 0, msg |-> 0]

\* counter values the counter package may return at the end of a run:
\* SumPrefix("GET|/") includes the keys of SumPrefix("GET|/fetch")
WideSnapshots ==
    {c \in [get : {0, 1, 1000}, fetch : {0, 1, 100}, s304 : {0, 99, 100, 200},
            post : {0, 50}, msg : {0, 30}] : c.fetch <= c.get}

\* the two of them read in the runs that include the escalation controller
CounterSnapshots ==
    {NoSnap, [get |-> 1000, fetch |-> 100, s304 |-> 200, post |-> 50, msg |-> 30]}

\* result := new(BenchResult)
NewResult == [Score |-> 0, Pass |-> FALSE, LoadLevel |-> 0, Errors |-> {},
              Message |-> "", Logs |-> <<>>]

\* result.Score = 0; result.Errors = getErrorsString(); result.Message = ...; return result
Failed(r, msg, errs) == [r EXCEPT !.Score = 0, !.Errors = errs, !.Message = msg]

\* the test of bench.go:319-327 after validationMain returned
AfterValidation(c, vx) ==
    IF CtxErr(c) THEN "break" ELSE IF vx = "fatal" THEN "fail" ELSE "again"

\* the process runs until main returns or a goroutine panics
Running == ~panicked /\ pc # "done"

\* ---------------------------------------------------------------- Signal Board
\* an operation (check, load, level-up load) is running and may report
InFlight == pc \in {"preCall", "vCall"} \/ workers.call > 0 \/ bursts > 0

\* the kind kept for a reported error: whether the run context was already done
ErrTag == IF CtxErr(ctx) THEN "late" ELSE "live"

\* mutant: the guard flag is not consulted
Accepts_always(g) == TRUE

\* a report takes effect only when the guard is not set
Accepts(g) == ~g

\* reportError, called by a running operation
ReportError ==
    /\ Running
    /\ InFlight
    /\ IF Accepts(guarded)
       THEN /\ lastErrAge' = 0
            /\ checkerErrors' = checkerErrors \cup {ErrTag}
            /\ UNCHANGED dropped
       ELSE /\ dropped' = TRUE
            /\ UNCHANGED <<lastErrAge, checkerErrors>>
    /\ UNCHANGED <<lastSlowAge, guarded>>
    /\ UNCHANGED <<regVars, cfgVars, seqVars, ctlVars, poolVars, ctx, panicked>>

\* reportSlowPath, called by a running operation
ReportSlowPath ==
    /\ Running
    /\ InFlight
    /\ IF Accepts(guarded)
       THEN /\ lastSlowAge' = 0
            /\ UNCHANGED dropped
       ELSE /\ dropped' = TRUE
            /\ UNCHANGED lastSlowAge
    /\ UNCHANGED <<lastErrAge, checkerErrors, guarded>>
    /\ UNCHANGED <<regVars, cfgVars, seqVars, ctlVars, poolVars, ctx, panicked>>

\* ---------------------------------------------------------------- clock
Older(age) == IF age = NoAge THEN NoAge ELSE IF age < Window THEN age + 1 ELSE age

\* between time.NewTicker and the deferred beat.Stop()
TickerLive == cpc \in {"select", "decide", "incKey", "levelUp"}

\* one second passes: the recorded signals age, the ticker offers a value
\* (beat.C holds at most one)
Second ==
    /\ Running
    /\ lastErrAge' = Older(lastErrAge)
    /\ lastSlowAge' = Older(lastSlowAge)
    /\ tickPending' = (tickPending \/ TickerLive)
    /\ UNCHANGED <<guarded, checkerErrors, dropped>>
    /\ UNCHANGED <<cpc, hasRecentErr, loadLogs, level>>
    /\ UNCHANGED <<regVars, cfgVars, seqVars, poolVars, ctx, panicked>>

\* the deadline of context.WithTimeout(context.Background(), benchDuration)
Timeout ==
    /\ Running
    /\ ctx = "live"
    /\ ctx' = "deadline"
    /\ UNCHANGED <<regVars, cfgVars, seqVars, sigVars, ctlVars, poolVars, panicked>>

\* ---------------------------------------------------------------- load pool
\* load(ctx, state, n): n goroutines, each starting at the top of its loop
load(n) ==
    /\ workers' = [workers EXCEPT !.top = @ + n]
    /\ poolRequested' = TRUE

\* mutant: the outer loop over n is missing, one goroutine per entry
levelUpLoad_single(n) ==
    /\ bursts' = bursts + Len(loadLevelUpFuncs)
    /\ burstsSpawned' = burstsSpawned + Len(loadLevelUpFuncs)

\* levelUpLoad(ctx, state, n): n goroutines per entry of loadLevelUpFuncs
levelUpLoad(n) ==
    /\ bursts' = bursts + n * Len(loadLevelUpFuncs)
    /\ burstsSpawned' = burstsSpawned + n * Len(loadLevelUpFuncs)

\* a worker at the top of its loop: ctx.Err(), then loadFuncs[rand.Intn(len(loadFuncs))]
load_top ==
    /\ Running
    /\ workers.top > 0
    /\ IF CtxErr(ctx)
       THEN /\ workers' = [workers EXCEPT !.top = @ - 1, !.exited = @ + 1]
            /\ UNCHANGED panicked
       ELSE IF Len(loadFuncs) = 0
       THEN /\ panicked' = TRUE          \* rand.Intn(0) panics
            /\ UNCHANGED workers
       ELSE /\ \E k \in 1..Len(loadFuncs) :
                 workers' = [workers EXCEPT !.top = @ - 1, !.call = @ + 1]
            /\ UNCHANGED panicked
    /\ UNCHANGED <<bursts, burstsSpawned, poolRequested>>
    /\ UNCHANGED <<regVars, cfgVars, seqVars, sigVars, ctlVars, ctx>>

\* mutant: a worker that ends on an error is replaced by a new one
load_return_respawn ==
    /\ Running
    /\ workers.call > 0
    /\ \E failed \in BOOLEAN :
         workers' = IF failed
                    THEN [workers EXCEPT !.call = @ - 1, !.exited = @ + 1, !.top = @ + 1]
                    ELSE [workers EXCEPT !.call = @ - 1, !.top = @ + 1]
    /\ UNCHANGED <<bursts, burstsSpawned, poolRequested>>
    /\ UNCHANGED <<regVars, cfgVars, seqVars, sigVars, ctlVars, ctx, panicked>>

\* the load function returns: on an error the worker returns
load_return ==
    /\ Running
    /\ workers.call > 0
    /\ \E failed \in BOOLEAN :
         workers' = IF failed
                    THEN [workers EXCEPT !.call = @ - 1, !.exited = @ + 1]
                    ELSE [workers EXCEPT !.call = @ - 1, !.top = @ + 1]
    /\ UNCHANGED <<bursts, burstsSpawned, poolRequested>>
    /\ UNCHANGED <<regVars, cfgVars, seqVars, sigVars, ctlVars, ctx, panicked>>

\* a goroutine of levelUpLoad ends; what its function returned is dropped
levelUpLoad_return ==
    /\ Running
    /\ bursts > 0
    /\ bursts' = bursts - 1
    /\ UNCHANGED <<workers, burstsSpawned, poolRequested>>
    /\ UNCHANGED <<regVars, cfgVars, seqVars, sigVars, ctlVars, ctx, panicked>>

\* ---------------------------------------------------------------- benchmarkMain
\* load(ctx, state, 10); levelUpLoad(ctx, state, 1); beat := time.NewTicker(time.Second)
benchmarkMain_start ==
    /\ Running
    /\ cpc = "start"
    /\ load(NumWorkers)
    /\ levelUpLoad(InitialBurst)
    /\ cpc' = "select"
    /\ UNCHANGED <<hasRecentErr, tickPending, loadLogs, level>>
    /\ UNCHANGED <<regVars, cfgVars, seqVars, sigVars, ctx, panicked>>

\* case <-beat.C: if noLevelup { continue }; e, et := bench.GetLastCheckerError();
\* hasRecentErr := e != nil && time.Since(et) < 5*time.Second
benchmarkMain_tick ==
    /\ Running
    /\ cpc = "select"
    /\ tickPending
    /\ noLevelup \/ Len(loadLogs) < MaxLogs
    /\ tickPending' = FALSE
    /\ IF noLevelup
       THEN UNCHANGED <<cpc, hasRecentErr>>
       ELSE /\ hasRecentErr' = HasRecent(lastErrAge)
            /\ cpc' = "decide"
    /\ UNCHANGED <<loadLogs, level>>
    /\ UNCHANGED <<regVars, cfgVars, seqVars, sigVars, poolVars, ctx, panicked>>

\* path, st := bench.GetLastSlowPath(); hasRecentSlowPath := ...; then the
\* if / else if / else of bench.go:182-189: one log entry is appended
benchmarkMain_decide ==
    /\ Running
    /\ cpc = "decide"
    /\ LET hasRecentSlowPath == HasRecent(lastSlowAge)
           kind == LogKind(hasRecentErr, hasRecentSlowPath)
       IN  /\ loadLogs' = Append(loadLogs, kind)
           /\ cpc' = IF kind = "up" THEN "incKey" ELSE "select"
    /\ hasRecentErr' = FALSE
    /\ UNCHANGED <<tickPending, level>>
    /\ UNCHANGED <<regVars, cfgVars, seqVars, sigVars, poolVars, ctx, panicked>>

\* counter.IncKey("load-level-up")
benchmarkMain_incKey ==
    /\ Running
    /\ cpc = "incKey"
    /\ level' = level + 1
    /\ cpc' = "levelUp"
    /\ UNCHANGED <<hasRecentErr, tickPending, loadLogs>>
    /\ UNCHANGED <<regVars, cfgVars, seqVars, sigVars, poolVars, ctx, panicked>>

\* levelUpLoad(ctx, state, 5)
benchmarkMain_levelUp ==
    /\ Running
    /\ cpc = "levelUp"
    /\ levelUpLoad(EscalationBurst)
    /\ cpc' = "select"
    /\ UNCHANGED <<workers, poolRequested>>
    /\ UNCHANGED <<hasRecentErr, tickPending, loadLogs, level>>
    /\ UNCHANGED <<regVars, cfgVars, seqVars, sigVars, ctx, panicked>>

\* case <-ctx.Done(): bench.GuardCheckerError(true); return  (and the deferred beat.Stop())
benchmarkMain_done ==
    /\ Running
    /\ cpc = "select"
    /\ CtxErr(ctx)
    /\ guarded' = TRUE
    /\ cpc' = "exited"
    /\ tickPending' = FALSE
    /\ UNCHANGED <<lastErrAge, lastSlowAge, checkerErrors, dropped>>
    /\ UNCHANGED <<hasRecentErr, loadLogs, level>>
    /\ UNCHANGED <<regVars, cfgVars, seqVars, poolVars, ctx, panicked>>

\* ---------------------------------------------------------------- startBenchmark
\* the registrations at the head of startBenchmark
startBenchmark_register ==
    /\ Running
    /\ pc = "register"
    /\ loadFuncs' = addLoadFunc(1, "loadLogin", addLoadFunc(1, "LoadCreateUser", loadFuncs))
    /\ loadLevelUpFuncs' = addLoadLevelUpFunc(1, "loadTopPage", loadLevelUpFuncs)
    /\ checkFuncs' = checkFuncs \o SubSeq(CheckNames, 1, NumChecks)
    /\ registrations' =
         [Registered("levelUp", 1, "loadTopPage",
            Registered("load", 1, "loadLogin",
              Registered("load", 1, "LoadCreateUser", registrations)))
          EXCEPT !.check = @ \o [k \in 1..NumChecks |-> [weight |-> 1, f |-> CheckNames[k]]]]
    /\ result' = NewResult
    /\ pc' = "initialize"
    /\ UNCHANGED <<i, perm, calls, vexit, gateErr, snap, err>>
    /\ UNCHANGED <<cfgVars, sigVars, ctlVars, poolVars, ctx, panicked>>

\* mutant: benchmarkMain is started before the gate has run
startBenchmark_initialize_spawnEarly ==
    /\ Running
    /\ pc = "initialize"
    /\ \E ok \in BOOLEAN :
         IF ok
         THEN /\ ctx' = "live"
              /\ pc' = "preTest"
              /\ i' = 1
              /\ calls' = <<>>
              /\ cpc' = "start"
              /\ UNCHANGED <<result, err>>
         ELSE /\ result' = Failed(result, "initialize", checkerErrors)
              /\ pc' = "returned"
              /\ err' = "err"
              /\ UNCHANGED <<ctx, i, calls, cpc>>
    /\ UNCHANGED <<perm, vexit, gateErr, snap>>
    /\ UNCHANGED <<hasRecentErr, tickPending, loadLogs, level>>
    /\ UNCHANGED <<regVars, cfgVars, sigVars, poolVars, panicked>>

\* requestInitialize, then context.WithTimeout
startBenchmark_initialize ==
    /\ Running
    /\ pc = "initialize"
    /\ \E ok \in BOOLEAN :
         IF ok
         THEN /\ ctx' = "live"
              /\ pc' = "preTest"
              /\ i' = 1
              /\ calls' = <<>>
              /\ UNCHANGED <<result, err>>
         ELSE /\ result' = Failed(result, "initialize", checkerErrors)
              /\ pc' = "returned"
              /\ err' = "err"
              /\ UNCHANGED <<ctx, i, calls>>
    /\ UNCHANGED <<perm, vexit, gateErr, snap>>
    /\ UNCHANGED <<regVars, cfgVars, sigVars, ctlVars, poolVars, panicked>>

\* preTest: the next check of the registry is called
preTest_call ==
    /\ Running
    /\ pc = "preTest"
    /\ i <= Len(checkFuncs)
    /\ calls' = Append(calls, i)
    /\ pc' = "preCall"
    /\ UNCHANGED <<i, perm, vexit, gateErr, result, snap, err>>
    /\ UNCHANGED <<regVars, cfgVars, sigVars, ctlVars, poolVars, ctx, panicked>>

\* preTest: the check returns; on an error preTest returns it and startBenchmark
\* returns the result of bench.go:301-304
preTest_return ==
    /\ Running
    /\ pc = "preCall"
    /\ \E out \in Outcomes :
         /\ gateErr' = (gateErr \/ out # "ok")
         /\ err' = IF out = "ok" THEN None ELSE out
         /\ IF GateFails(out)
            THEN /\ result' = Failed(result, "preTest", checkerErrors)
                 /\ pc' = "returned"
                 /\ ctx' = Cancel(ctx)
                 /\ UNCHANGED i
            ELSE /\ i' = i + 1
                 /\ pc' = "preTest"
                 /\ UNCHANGED <<result, ctx>>
    /\ UNCHANGED <<perm, calls, vexit, snap>>
    /\ UNCHANGED <<regVars, cfgVars, sigVars, ctlVars, poolVars, panicked>>

\* preTest returned nil: if preTestOnly { ... return result }
startBenchmark_gateDone ==
    /\ Running
    /\ pc = "preTest"
    /\ i > Len(checkFuncs)
    /\ IF preTestOnly
       THEN /\ result' = Failed(result, "preTest passed.", checkerErrors)
            /\ pc' = "returned"
            /\ ctx' = Cancel(ctx)
       ELSE /\ pc' = "spawn"
            /\ UNCHANGED <<result, ctx>>
    /\ UNCHANGED <<i, perm, calls, vexit, gateErr, snap, err>>
    /\ UNCHANGED <<regVars, cfgVars, sigVars, ctlVars, poolVars, panicked>>

\* go benchmarkMain(ctx, state)
startBenchmark_spawn ==
    /\ Running
    /\ pc = "spawn"
    /\ cpc' = "start"
    /\ pc' = "vPerm"
    /\ UNCHANGED <<i, perm, calls, vexit, gateErr, result, snap, err>>
    /\ UNCHANGED <<hasRecentErr, tickPending, loadLogs, level>>
    /\ UNCHANGED <<regVars, cfgVars, sigVars, poolVars, ctx, panicked>>

\* validationMain is entered: rand.Perm(len(checkFuncs)) is evaluated
validationMain_perm ==
    /\ Running
    /\ pc = "vPerm"
    /\ \E p \in Perm(Len(checkFuncs)) : perm' = p
    /\ i' = 1
    /\ calls' = <<>>
    /\ vexit' = None
    /\ pc' = "vTop"
    /\ UNCHANGED <<gateErr, result, snap, err>>
    /\ UNCHANGED <<regVars, cfgVars, sigVars, ctlVars, poolVars, ctx, panicked>>

\* mutant: the context is not tested at the top of the loop body
validationMain_top_noCtx ==
    /\ Running
    /\ pc = "vTop"
    /\ IF i > Len(perm)
       THEN /\ vexit' = "exhausted"
            /\ pc' = "afterValidation"
            /\ i' = 1
            /\ perm' = <<>>
            /\ UNCHANGED calls
       ELSE /\ calls' = Append(calls, RangeVar(perm, i))
            /\ pc' = "vCall"
            /\ UNCHANGED <<i, perm, vexit>>
    /\ UNCHANGED <<gateErr, result, snap, err>>
    /\ UNCHANGED <<regVars, cfgVars, sigVars, ctlVars, poolVars, ctx, panicked>>

\* top of the loop body: the loop ends, or ctx.Err() != nil returns nil, or
\* checkFuncs[r] is called
validationMain_top ==
    /\ Running
    /\ pc = "vTop"
    /\ IF i > Len(perm)
       THEN /\ vexit' = "exhausted"
            /\ pc' = "afterValidation"
            /\ i' = 1
            /\ perm' = <<>>
            /\ UNCHANGED calls
       ELSE IF CtxErr(ctx)
       THEN /\ vexit' = "cancelled"
            /\ pc' = "afterValidation"
            /\ i' = 1
            /\ perm' = <<>>
            /\ UNCHANGED calls
       ELSE /\ calls' = Append(calls, RangeVar(perm, i))
            /\ pc' = "vCall"
            /\ UNCHANGED <<i, perm, vexit>>
    /\ UNCHANGED <<gateErr, result, snap, err>>
    /\ UNCHANGED <<regVars, cfgVars, sigVars, ctlVars, poolVars, ctx, panicked>>

\* the check returns: a fatal error is returned, any other error sleeps
validationMain_return ==
    /\ Running
    /\ pc = "vCall"
    /\ \E out \in Outcomes :
         /\ err' = IF out = "ok" THEN None ELSE out
         /\ IF out # "ok" /\ IsFatalError(out)
            THEN /\ vexit' = "fatal"
                 /\ pc' = "afterValidation"
                 /\ i' = 1
                 /\ perm' = <<>>
            ELSE IF out # "ok"
            THEN /\ pc' = "vSleep"
                 /\ UNCHANGED <<i, perm, vexit>>
            ELSE /\ i' = i + 1
                 /\ pc' = "vTop"
                 /\ UNCHANGED <<perm, vexit>>
    /\ UNCHANGED <<calls, gateErr, result, snap>>
    /\ UNCHANGED <<regVars, cfgVars, sigVars, ctlVars, poolVars, ctx, panicked>>

\* time.Sleep(500 * time.Millisecond)
validationMain_sleep ==
    /\ Running
    /\ pc = "vSleep"
    /\ i' = i + 1
    /\ pc' = "vTop"
    /\ err' = None
    /\ UNCHANGED <<perm, calls, vexit, gateErr, result, snap>>
    /\ UNCHANGED <<regVars, cfgVars, sigVars, ctlVars, poolVars, ctx, panicked>>

\* after validationMain: ctx.Err() != nil breaks the loop; else a returned
\* error takes the branch of bench.go:322-327; else validationMain is called
\* again
startBenchmark_afterValidation ==
    /\ Running
    /\ pc = "afterValidation"
    /\ LET branch == AfterValidation(ctx, vexit)
       IN  pc' = IF branch = "break" THEN "score"
                 ELSE IF branch = "fail" THEN "fail"
                 ELSE "vPerm"
    /\ UNCHANGED <<i, perm, calls, vexit, gateErr, result, snap, err>>
    /\ UNCHANGED <<regVars, cfgVars, sigVars, ctlVars, poolVars, ctx, panicked>>

\* result.Score = 0; result.Errors = getErrorsString(); result.Message = ...:
\* the errors are read after the test of the context, with the other goroutines
\* and the deadline going on between
startBenchmark_fail ==
    /\ Running
    /\ pc = "fail"
    /\ result' = Failed(result, "validation", checkerErrors)
    /\ pc' = "failReturn"
    /\ UNCHANGED <<i, perm, calls, vexit, gateErr, snap, err>>
    /\ UNCHANGED <<regVars, cfgVars, sigVars, ctlVars, poolVars, ctx, panicked>>

\* return result: the deferred cancel() runs, after the errors were read and
\* with the other goroutines going on between
startBenchmark_failReturn ==
    /\ Running
    /\ pc = "failReturn"
    /\ pc' = "returned"
    /\ ctx' = Cancel(ctx)
    /\ UNCHANGED <<i, perm, calls, vexit, gateErr, result, snap, err>>
    /\ UNCHANGED <<regVars, cfgVars, sigVars, ctlVars, poolVars, panicked>>

\* the counters are read, the score is computed, LoadLevel, Pass and Score are set
scoreOn(snapshots) ==
    /\ Running
    /\ pc = "score"
    /\ \E c \in snapshots :
         /\ snap' = c
         /\ result' = [result EXCEPT !.LoadLevel = level, !.Pass = TRUE, !.Score = Score(c)]
    /\ pc' = "collect"
    /\ UNCHANGED <<i, perm, calls, vexit, gateErr, err>>
    /\ UNCHANGED <<regVars, cfgVars, sigVars, ctlVars, poolVars, ctx, panicked>>

startBenchmark_score == scoreOn(CounterSnapshots)

startBenchmark_scoreWide == scoreOn(WideSnapshots)

\* result.Errors = getErrorsString(); result.Message = "ok"; return (deferred cancel)
startBenchmark_collect ==
    /\ Running
    /\ pc = "collect"
    /\ result' = [result EXCEPT !.Errors = checkerErrors, !.Message = "ok"]
    /\ pc' = "returned"
    /\ ctx' = Cancel(ctx)
    /\ UNCHANGED <<i, perm, calls, vexit, gateErr, snap, err>>
    /\ UNCHANGED <<regVars, cfgVars, sigVars, ctlVars, poolVars, panicked>>

\* main: result.Logs = loadLogs; from here on the result is not written again
main_logs ==
    /\ Running
    /\ pc = "returned"
    /\ result' = [result EXCEPT !.Logs = loadLogs]
    /\ pc' = "logged"
    /\ UNCHANGED <<i, perm, calls, vexit, gateErr, snap, err>>
    /\ UNCHANGED <<regVars, cfgVars, sigVars, ctlVars, poolVars, ctx, panicked>>

\* main: the result is marshalled, logged and written, and main returns, which
\* ends the process with whatever goroutines are still running
main_exit ==
    /\ Running
    /\ pc = "logged"
    /\ pc' = "done"
    /\ UNCHANGED <<i, perm, calls, vexit, gateErr, result, snap, err>>
    /\ UNCHANGED <<regVars, cfgVars, sigVars, ctlVars, poolVars, ctx, panicked>>

\* ---------------------------------------------------------------- callers of the registry and the pool
\* A caller other than startBenchmark: it registers functions in any order
\* and with any weight, creates a context and starts the pool.
FuncNames == {"f", "g"}

harness_addCheckFunc ==
    /\ Running
    /\ pc = "harness"
    /\ Len(checkFuncs) < MaxReg
    /\ \E f \in FuncNames :
         /\ checkFuncs' = addCheckFunc(f, checkFuncs)
         /\ registrations' = Registered("check", 1, f, registrations)
    /\ UNCHANGED <<loadFuncs, loadLevelUpFuncs>>
    /\ UNCHANGED <<cfgVars, seqVars, sigVars, ctlVars, poolVars, ctx, panicked>>

harness_addLoadFunc ==
    /\ Running
    /\ pc = "harness"
    /\ \E w \in 1..MaxWeight, f \in FuncNames :
         /\ Len(loadFuncs) + w <= MaxReg
         /\ loadFuncs' = addLoadFunc(w, f, loadFuncs)
         /\ registrations' = Registered("load", w, f, registrations)
    /\ UNCHANGED <<checkFuncs, loadLevelUpFuncs>>
    /\ UNCHANGED <<cfgVars, seqVars, sigVars, ctlVars, poolVars, ctx, panicked>>

harness_addLoadLevelUpFunc ==
    /\ Running
    /\ pc = "harness"
    /\ \E w \in 1..MaxWeight, f \in FuncNames :
         /\ Len(loadLevelUpFuncs) + w <= MaxReg
         /\ loadLevelUpFuncs' = addLoadLevelUpFunc(w, f, loadLevelUpFuncs)
         /\ registrations' = Registered("levelUp", w, f, registrations)
    /\ UNCHANGED <<checkFuncs, loadFuncs>>
    /\ UNCHANGED <<cfgVars, seqVars, sigVars, ctlVars, poolVars, ctx, panicked>>

\* ctx, cancel := context.WithTimeout(...); load(ctx, state, n)
harness_load ==
    /\ Running
    /\ pc = "harness"
    /\ ctx' = "live"
    /\ \E n \in 1..MaxPool : load(n)
    /\ pc' = "pool"
    /\ UNCHANGED <<i, perm, calls, vexit, gateErr, result, snap, err>>
    /\ UNCHANGED <<bursts, burstsSpawned>>
    /\ UNCHANGED <<regVars, cfgVars, sigVars, ctlVars, panicked>>

\* levelUpLoad(ctx, state, n)
harness_levelUpLoad ==
    /\ Running
    /\ pc = "pool"
    /\ burstsSpawned = 0
    /\ \E n \in 1..MaxPool : levelUpLoad(n)
    /\ UNCHANGED <<workers, poolRequested>>
    /\ UNCHANGED <<regVars, cfgVars, seqVars, sigVars, ctlVars, ctx, panicked>>

\* ---------------------------------------------------------------- specifications
Init ==
    /\ preTestOnly \in BOOLEAN
    /\ noLevelup \in BOOLEAN
    /\ checkFuncs = <<>>
    /\ loadFuncs = <<>>
    /\ loadLevelUpFuncs = <<>>
    /\ registrations = NoRegistrations
    /\ loadLogs = <<>>
    /\ ctx = "none"
    /\ pc = "register"
    /\ i = 1
    /\ perm = <<>>
    /\ calls = <<>>
    /\ vexit = None
    /\ gateErr = FALSE
    /\ result = NewResult
    /\ snap = NoSnap
    /\ err = None
    /\ lastErrAge = NoAge
    /\ lastSlowAge = NoAge
    /\ guarded = FALSE
    /\ checkerErrors = {}
    /\ dropped = FALSE
    /\ cpc = "none"
    /\ hasRecentErr = FALSE
    /\ tickPending = FALSE
    /\ workers = [top |-> 0, call |-> 0, exited |-> 0]
    /\ bursts = 0
    /\ burstsSpawned = 0
    /\ level = 0
    /\ poolRequested = FALSE
    /\ panicked = FALSE

\* The whole run: startBenchmark and main, the escalation controller, the
\* Signal Board, the clock and the deadline.  The operations started by load
\* and levelUpLoad are running for as long as the run lasts.
Next ==
    \/ startBenchmark_register
    \/ startBenchmark_initialize
    \/ preTest_call
    \/ preTest_return
    \/ startBenchmark_gateDone
    \/ startBenchmark_spawn
    \/ validationMain_perm
    \/ validationMain_top
    \/ validationMain_return
    \/ validationMain_sleep
    \/ startBenchmark_afterValidation
    \/ startBenchmark_fail
    \/ startBenchmark_failReturn
    \/ startBenchmark_score
    \/ startBenchmark_collect
    \/ main_logs
    \/ main_exit
    \/ benchmarkMain_start
    \/ benchmarkMain_tick
    \/ benchmarkMain_decide
    \/ benchmarkMain_incKey
    \/ benchmarkMain_levelUp
    \/ benchmarkMain_done
    \/ ReportError
    \/ ReportSlowPath
    \/ Second
    \/ Timeout

Spec == Init /\ [][Next]_vars

\* The goroutine of main/startBenchmark and the deadline alone, with the
\* counters read from the wide set.
NextSeq ==
    \/ startBenchmark_register
    \/ startBenchmark_initialize
    \/ preTest_call
    \/ preTest_return
    \/ startBenchmark_gateDone
    \/ startBenchmark_spawn
    \/ validationMain_perm
    \/ validationMain_top
    \/ validationMain_return
    \/ validationMain_sleep
    \/ startBenchmark_afterValidation
    \/ startBenchmark_fail
    \/ startBenchmark_failReturn
    \/ startBenchmark_scoreWide
    \/ startBenchmark_collect
    \/ main_logs
    \/ main_exit
    \/ Timeout

SpecSeq == Init /\ [][NextSeq]_vars

\* The registry and the pool under any caller.
InitPool ==
    /\ preTestOnly = FALSE
    /\ noLevelup = FALSE
    /\ checkFuncs = <<>>
    /\ loadFuncs = <<>>
    /\ loadLevelUpFuncs = <<>>
    /\ registrations = NoRegistrations
    /\ loadLogs = <<>>
    /\ ctx = "none"
    /\ pc = "harness"
    /\ i = 1
    /\ perm = <<>>
    /\ calls = <<>>
    /\ vexit = None
    /\ gateErr = FALSE
    /\ result = NewResult
    /\ snap = NoSnap
    /\ err = None
    /\ lastErrAge = NoAge
    /\ lastSlowAge = NoAge
    /\ guarded = FALSE
    /\ checkerErrors = {}
    /\ dropped = FALSE
    /\ cpc = "none"
    /\ hasRecentErr = FALSE
    /\ tickPending = FALSE
    /\ workers = [top |-> 0, call |-> 0, exited |-> 0]
    /\ bursts = 0
    /\ burstsSpawned = 0
    /\ level = 0
    /\ poolRequested = FALSE
    /\ panicked = FALSE

NextPool ==
    \/ harness_addCheckFunc
    \/ harness_addLoadFunc
    \/ harness_addLoadLevelUpFunc
    \/ harness_load
    \/ harness_levelUpLoad
    \/ load_top
    \/ load_return
    \/ levelUpLoad_return
    \/ Timeout

SpecPool == InitPool /\ [][NextPool]_vars

\* The run with the goroutines of load and levelUpLoad taking their steps:
\* startBenchmark and main, the start and the end of benchmarkMain, the workers,
\* the one-shot invocations and the deadline.
NextLoad ==
    \/ startBenchmark_register
    \/ startBenchmark_initialize
    \/ preTest_call
    \/ preTest_return
    \/ startBenchmark_gateDone
    \/ startBenchmark_spawn
    \/ validationMain_perm
    \/ validationMain_top
    \/ validationMain_return
    \/ validationMain_sleep
    \/ startBenchmark_afterValidation
    \/ startBenchmark_fail
    \/ startBenchmark_failReturn
    \/ startBenchmark_score
    \/ startBenchmark_collect
    \/ main_logs
    \/ main_exit
    \/ benchmarkMain_start
    \/ benchmarkMain_done
    \/ load_top
    \/ load_return
    \/ levelUpLoad_return
    \/ Timeout

SpecLoad == Init /\ [][NextLoad]_vars

\* The run with the escalation controller ticking and the one-shot invocations
\* of levelUpLoad ending, no operation reporting to the Signal Board.
NextBurst ==
    \/ startBenchmark_register
    \/ startBenchmark_initialize
    \/ preTest_call
    \/ preTest_return
    \/ startBenchmark_gateDone
    \/ startBenchmark_spawn
    \/ validationMain_perm
    \/ validationMain_top
    \/ validationMain_return
    \/ validationMain_sleep
    \/ startBenchmark_afterValidation
    \/ startBenchmark_fail
    \/ startBenchmark_failReturn
    \/ startBenchmark_score
    \/ startBenchmark_collect
    \/ main_logs
    \/ main_exit
    \/ benchmarkMain_start
    \/ benchmarkMain_tick
    \/ benchmarkMain_decide
    \/ benchmarkMain_incKey
    \/ benchmarkMain_levelUp
    \/ benchmarkMain_done
    \/ levelUpLoad_return
    \/ Second
    \/ Timeout

SpecBurst == Init /\ [][NextBurst]_vars

\* ---------------------------------------------------------------- properties
Returned == pc \in {"returned", "logged", "done"}

NoWorker == workers.top + workers.call + workers.exited = 0

ExampleSnap == [get |-> 1000, fetch |-> 100, s304 |-> 200, post |-> 50, msg |-> 30]

\* C1 (as stated): whenever a check of continuous validation has returned a
\* fatal error, the run ends with pass=false and score=0, however the failure
\* interleaves with the deadline.
C1_FatalAlwaysFails ==
    (Returned /\ vexit = "fatal") => (result.Pass = FALSE /\ result.Score = 0)

\* C2: once a check called by the gate has returned an error, startBenchmark
\* has returned, the failing check is the last one invoked, the result has
\* score=0, pass=false and the gate message, and neither the controller nor a
\* worker nor a level-up goroutine has been started.
C2_GateFailure ==
    gateErr =>
        /\ Returned
        /\ Len(calls) = i
        /\ \A k \in 1..Len(calls) : calls[k] = k
        /\ result.Score = 0
        /\ result.Pass = FALSE
        /\ result.Message = "preTest"
        /\ cpc = "none"
        /\ NoWorker
        /\ ~poolRequested
        /\ burstsSpawned = 0
        /\ level = 0
        /\ loadLogs = <<>>

C2_Witness ==
    gateErr /\ pc = "done" /\ i < Len(checkFuncs) /\ result.Message = "preTest"

\* C3: the level never decreases; the hasRecentErr of a tick is "an error
\* exists and is less than 5 seconds old"; a tick on which hasRecentErr or
\* hasRecentSlowPath holds returns to the select without a change of the level
\* and without a new level-up goroutine; the level changes only at IncKey,
\* which only a tick with neither reaches.
C3_Escalation ==
    [][ /\ level' >= level
        /\ (cpc = "select" /\ cpc' = "decide")
              => (hasRecentErr' = (lastErrAge # NoAge /\ lastErrAge < 5))
        /\ (cpc = "decide" /\ cpc' # "decide"
              /\ (hasRecentErr \/ (lastSlowAge # NoAge /\ lastSlowAge < 5)))
              => (cpc' = "select" /\ level' = level /\ bursts' = bursts
                  /\ burstsSpawned' = burstsSpawned)
        /\ (cpc' = "incKey" /\ cpc # "incKey")
              => (cpc = "decide" /\ ~hasRecentErr
                  /\ ~(lastSlowAge # NoAge /\ lastSlowAge < 5))
        /\ (level' # level) => (cpc = "incKey" /\ level' = level + 1)
        /\ (burstsSpawned' # burstsSpawned) => cpc \in {"start", "levelUp"} ]_vars

C3_Witness ==
    /\ level = 1
    /\ Len(loadLogs) = 2
    /\ loadLogs[1] = "up"
    /\ loadLogs[2] \in {"err", "slow"}
    /\ cpc = "select"

\* C4 (as stated): when startBenchmark has returned the result of a run ended
\* by the deadline or by a fatal validation error, the guard was set before
\* the errors were collected and no error reported after cancellation is
\* among the result's errors.
C4_GuardBeforeCollect ==
    (pc = "returned" /\ result.Message \in {"ok", "validation"})
        => (guarded /\ "late" \notin result.Errors)

\* C5: once the guard is set it stays set, and no step resets the age of the
\* last error or of the last slow path or adds to the recorded errors: the
\* signals only grow older.
C5_GuardedReports ==
    [][ guarded =>
          /\ guarded'
          /\ checkerErrors' = checkerErrors
          /\ \/ lastErrAge' = lastErrAge
             \/ (lastErrAge # NoAge /\ lastErrAge' = lastErrAge + 1)
          /\ \/ lastSlowAge' = lastSlowAge
             \/ (lastSlowAge # NoAge /\ lastSlowAge' = lastSlowAge + 1) ]_vars

C5_Witness == guarded /\ dropped

\* C6 (as stated): the checks of a pass are invoked in the order of the
\* permutation drawn for the pass.
C6_PermOrder ==
    pc = "vCall" => \A k \in 1..Len(calls) : calls[k] = perm[k]

\* C7: a pass that ran to the end of its loop has invoked every registered
\* check exactly once.
C7_EveryCheckOnce ==
    (pc = "afterValidation" /\ vexit = "exhausted") =>
        /\ Len(calls) = Len(checkFuncs)
        /\ \A c \in 1..Len(checkFuncs) :
             Cardinality({k \in 1..Len(calls) : calls[k] = c}) = 1

C7_Witness ==
    /\ pc = "afterValidation"
    /\ vexit = "exhausted"
    /\ Len(calls) = Len(checkFuncs)
    /\ Len(calls) >= 2

\* C8 (as stated): pass=true exactly when the deadline was reached after a
\* successful initialization and gate, with gate-only mode off and no fatal
\* validation error; pass=false comes with score=0.
C8_PassIffNoFatal ==
    Returned =>
        /\ result.Pass <=> (ctx = "deadline" /\ ~gateErr /\ ~preTestOnly /\ vexit # "fatal")
        /\ ~result.Pass => result.Score = 0

\* C9: in a passing result the score is
\* (get - fetch - notModified) + 3*post + message + notModified/100, and 882
\* for the counts 1000, 100, 200, 50, 30.
C9_Score ==
    result.Pass =>
        /\ result.Score = (snap.get - snap.fetch - snap.s304) + 3 * snap.post
                          + snap.msg + (snap.s304 \div 100)
        /\ snap = ExampleSnap => result.Score = 882

C9_Witness ==
    pc = "done" /\ result.Pass /\ snap = ExampleSnap /\ result.Score = 882

\* C10 (as stated): when load is called with no load function registered, the
\* call is rejected: no worker goroutine exists and the process does not panic.
C10_EmptyRegistryRejected ==
    (poolRequested /\ Len(loadFuncs) = 0) => (NoWorker /\ ~panicked)

\* some load worker, level-up invocation, controller step or check of continuous
\* validation has been started
Started ==
    \/ cpc # "none"
    \/ poolRequested
    \/ ~NoWorker
    \/ burstsSpawned > 0
    \/ bursts > 0
    \/ tickPending
    \/ level > 0
    \/ loadLogs # <<>>
    \/ vexit # None
    \/ pc \in {"vPerm", "vTop", "vCall", "vSleep", "afterValidation", "fail", "failReturn",
                "score", "collect"}

\* C11: no load worker, level-up invocation, controller tick or check of
\* continuous validation happens before preTest has returned nil with every
\* registered check called once; in gate-only mode none of them ever happens and
\* the result has score 0 and pass false.
C11_GateFirst ==
    /\ Started => /\ pc \notin {"register", "initialize", "preTest", "preCall"}
                  /\ ~gateErr
                  /\ ~preTestOnly
    /\ pc = "spawn" => /\ calls = [k \in 1..Len(checkFuncs) |-> k]
                       /\ err = None
                       /\ ~gateErr
    /\ preTestOnly => /\ ~Started
                      /\ Returned => (result.Score = 0 /\ result.Pass = FALSE)

\* a gate-only run whose gate called every check and passed
C11_Witness ==
    /\ preTestOnly
    /\ pc = "done"
    /\ result.Message = "preTest passed."
    /\ Len(calls) = Len(checkFuncs)
    /\ Len(calls) >= 2

\* the registry a registration goes to
Registry(kind) ==
    CASE kind = "check" -> checkFuncs
      [] kind = "load" -> loadFuncs
      [] kind = "levelUp" -> loadLevelUpFuncs

\* the sum of the weights of a sequence of registrations
RECURSIVE WeightSum(_)
WeightSum(log) ==
    IF log = <<>> THEN 0 ELSE Head(log).weight + WeightSum(Tail(log))

\* C12: after any sequence of registrations with weights >= 1, every registry
\* holds as many entries as the sum of the weights registered for it, the
\* registration number j owns exactly its weight many of them (the block after
\* the entries of the earlier registrations, all naming its function), and so a
\* registration adds nothing to another registry.
C12_Replication ==
    \A kind \in {"check", "load", "levelUp"} :
        /\ Len(Registry(kind)) = WeightSum(registrations[kind])
        /\ \A j \in 1..Len(registrations[kind]) :
             LET r == registrations[kind][j]
                 off == WeightSum(SubSeq(registrations[kind], 1, j - 1))
             IN  /\ r.weight >= 1
                 /\ \A k \in 1..r.weight : Registry(kind)[off + k] = r.f

\* a load function registered with weight 2 next to registrations of the other kinds
C12_Witness ==
    /\ \E j \in 1..Len(registrations.load) : registrations.load[j].weight = 2
    /\ registrations.levelUp # <<>>
    /\ registrations.check # <<>>
    /\ Len(loadFuncs) = 2

\* C13 (as stated): once the run context is done the escalation controller, in
\* its tick loop, appends no log entry, increments no level and spawns no
\* level-up burst; the one step it still takes is guard(true), taken once, from
\* the select, as its last step.
C13_NoEscalationAfterCancel ==
    [][ /\ (CtxErr(ctx) /\ TickerLive) =>
              /\ level' = level
              /\ loadLogs' = loadLogs
              /\ burstsSpawned' = burstsSpawned
              /\ cpc' # cpc => (cpc = "select" /\ cpc' = "exited" /\ guarded')
        /\ guarded' # guarded => (~guarded /\ CtxErr(ctx) /\ cpc = "select" /\ cpc' = "exited")
        /\ cpc = "exited" => cpc' = "exited"
      ]_vars

\* C14: an error of a check of continuous validation that is not fatal does not
\* end validationMain or the run and leaves the result alone: validationMain
\* sleeps and then moves on to the next position of the pass; only a fatal
\* error produces the failed-validation result.
C14_NonFatalAbsorbed ==
    /\ []((err = "err" /\ pc \in {"vPerm", "vTop", "vCall", "vSleep", "afterValidation"})
            => pc = "vSleep")
    /\ []((Returned /\ result.Message = "validation") => (err = "fatal" /\ vexit = "fatal"))
    /\ [][ /\ (pc = "vCall" /\ err' = "err") =>
                /\ pc' = "vSleep"
                /\ result' = result
                /\ <<i, perm, vexit, calls>>' = <<i, perm, vexit, calls>>
           /\ (pc = "vSleep" /\ pc' # pc) =>
                /\ pc' = "vTop"
                /\ i' = i + 1
                /\ result' = result
                /\ <<perm, vexit, calls>>' = <<perm, vexit, calls>>
         ]_vars

\* a check returned a non-fatal error while the run is live and the pass has a
\* further check to go to
C14_Witness ==
    /\ pc = "vSleep"
    /\ err = "err"
    /\ ctx = "live"
    /\ i < Len(perm)

\* the goroutines of load that have not returned
LiveWorkers == workers.top + workers.call

\* C15: the goroutines of load are 10 from the start of benchmarkMain on and
\* are never replaced; a worker that ends (on an error of its load function, or
\* on the done context) takes only itself out: the live workers go down by
\* exactly one and the orchestrator, the controller, the result, the level and
\* the context are left as they were; the number of live workers never
\* increases after the start.
C15_FailStop ==
    /\ [](LiveWorkers + workers.exited = IF poolRequested THEN 10 ELSE 0)
    /\ [][ /\ LiveWorkers' > LiveWorkers =>
                (cpc = "start" /\ LiveWorkers = 0 /\ LiveWorkers' = 10)
           /\ workers'.exited # workers.exited =>
                /\ workers'.exited = workers.exited + 1
                /\ LiveWorkers' = LiveWorkers - 1
                /\ <<pc, cpc, result, level, ctx, vexit, err, bursts, burstsSpawned>>'
                     = <<pc, cpc, result, level, ctx, vexit, err, bursts, burstsSpawned>>
         ]_vars

\* a worker has ended on an error of its load function (the context is live)
\* while other workers, the controller and continuous validation go on
C15_Witness ==
    /\ ctx = "live"
    /\ workers.exited >= 1
    /\ LiveWorkers >= 1
    /\ cpc = "select"
    /\ pc = "vCall"

\* C16: in continuous validation a check is called only from the top of the
\* loop body, where no check is running, and only when the context is not done
\* there; while a check is running no other check is called; and when the
\* context becomes done during a call, the call goes on and validationMain
\* leaves it only through the check's own return.
C16_OneCheckAtATime ==
    [][ /\ (pc' = "vCall" /\ pc # "vCall") =>
             /\ pc = "vTop"
             /\ ~CtxErr(ctx)
             /\ Len(calls') = Len(calls) + 1
             /\ SubSeq(calls', 1, Len(calls)) = calls
        /\ pc = "vCall" => calls' = calls
        /\ (pc = "vCall" /\ ctx' # ctx) => (pc' = "vCall" /\ UNCHANGED <<i, perm, vexit, err, result>>)
        /\ (pc = "vCall" /\ pc' # "vCall") => pc' \in {"vTop", "vSleep", "afterValidation"}
      ]_vars

\* the deadline fired while a check of continuous validation was running
C16_Witness ==
    /\ pc = "vCall"
    /\ ctx = "deadline"
    /\ cpc # "none"

\* the calls of levelUpLoad(ctx, state, 5) completed by the controller
Escalations == IF cpc = "levelUp" THEN level - 1 ELSE level

\* C18: the one-shot invocations spawned so far are, per entry of the level-up
\* registry, 1 from the start of benchmarkMain plus 5 for every escalation made;
\* at most that many are running; the sustained workers are the 10 of the
\* start; and the end of a one-shot invocation, whatever it returned, spawns
\* nothing and leaves the workers, the level, the controller, the orchestrator
\* and the result as they were.
C18_LevelUpBursts ==
    /\ [](burstsSpawned = Len(loadLevelUpFuncs)
            * ((IF cpc \in {"none", "start"} THEN 0 ELSE 1) + 5 * Escalations))
    /\ [](bursts <= burstsSpawned)
    /\ [](cpc \notin {"none", "start"} => (LiveWorkers + workers.exited = 10))
    /\ [][ bursts' < bursts =>
             /\ bursts' = bursts - 1
             /\ <<burstsSpawned, workers, level, cpc, pc, result, loadLogs, ctx>>'
                  = <<burstsSpawned, workers, level, cpc, pc, result, loadLogs, ctx>>
         ]_vars

\* two escalations were made and some of the 11 one-shot invocations have ended
C18_Witness ==
    /\ level = 2
    /\ cpc = "select"
    /\ burstsSpawned = 11
    /\ bursts < burstsSpawned
    /\ bursts > 0

\* the 'level increased' entries of a log
Ups(logs) == Cardinality({k \in 1..Len(logs) : logs[k] = "up"})

\* C20 (as stated): in the result main hands on for a passing run, LoadLevel
\* equals the number of 'level increased' entries of Logs, whatever the
\* controller does while startBenchmark and main collect the two.
C20_LevelMatchesLogs ==
    (pc = "done" /\ result.Pass) => result.LoadLevel = Ups(result.Logs)

\* C17 (as stated): once the deadline has fired, every worker of load returns,
\* benchmarkMain returns and startBenchmark returns its result.  Nothing runs
\* after main has returned, so at the end of a run that started its load and
\* reached its deadline, with no call of a load function outstanding, every
\* worker and the controller have returned.
C17_DrainedAtExit ==
    (/\ pc = "done"
     /\ ctx = "deadline"
     /\ result.Pass
     /\ cpc \notin {"none", "start"}
     /\ workers.call = 0)
        => (LiveWorkers = 0 /\ cpc = "exited")

\* C19 (as stated): with noLevelup set the level stays 0, no log entry is
\* appended, nothing beyond the levelUpLoad(1) of the start is spawned, and the
\* controller, once started, has called guard(true) on the cancelled run by the
\* time the run ends.
C19_DisabledEscalation ==
    noLevelup =>
        /\ level = 0
        /\ loadLogs = <<>>
        /\ result.LoadLevel = 0
        /\ result.Logs = <<>>
        /\ cpc \in {"none", "start", "select", "exited"}
        /\ burstsSpawned <= 1 * Len(loadLevelUpFuncs)
        /\ (pc = "done" /\ cpc # "none") => guarded
====
